---- MODULE Spec2Model ----
(***************************************************************************)
(* EduMatch MCP gateway (src/src/api_server.py, src/src/server.py).        *)
(*                                                                         *)
(* One uvicorn event loop serves every request and every SSE stream.  A    *)
(* task runs on the loop until it suspends at a real await; a synchronous  *)
(* call (requests.get, psycopg2) keeps the loop for as long as it lasts.   *)
(* `running` is the task that has the loop, `cur` its local variables.     *)
(***************************************************************************)
EXTENDS Integers, Sequences, FiniteSets, TLC

VARIABLES
    pc,         \* per request slot: where its handler is
    route,      \* per request slot: the route being served
    auth,       \* per request slot: whether verify_authorized_user has returned for it
    running,    \* the task executing on the event loop, or NoTask
    cur,        \* locals of the running handler
    conns,      \* storage connections and cursors currently open
    spc,        \* per stream: position of event_generator
    cancelled,  \* per stream: the transport has reported the peer's disconnect
    events,     \* per stream: the events emitted so far
    TOOLS,      \* the module's list of tool descriptors
    table,      \* storage: the rows of programs joined with countries and institutions
    call        \* one tool call followed through the storage: its arguments, rows and result

vars == <<pc, route, auth, running, cur, conns, spc, cancelled, events, TOOLS, table, call>>

(***************************************************************************)
(* Bounds of the model.                                                    *)
(***************************************************************************)
MaxPings == 2
MaxConns == 1

\* The tasks of the model: two request slots, each serving one request after
\* another, and one stream.
Requests == {"r1", "r2"}
Streams == {"s1"}
NoTask == "none"

(***************************************************************************)
(* JSON and Python values.  Every value is a tagged record, so a number,   *)
(* a string with the same digits, null, an array and an object all differ. *)
(***************************************************************************)
None == [t |-> "null"]
JNum(n) == [t |-> "num", n |-> n]
JStr(s) == [t |-> "str", s |-> s]
JList == [t |-> "list"]
JObj(f) == [t |-> "obj", f |-> f]
EmptyDict == JObj(<<>>)
Malformed == [t |-> "malformed"]

\* d.get(k, default) on a dict; on any other value the attribute is missing.
HasGet(v) == v.t = "obj"
Get(d, k, default) == IF k \in DOMAIN d.f THEN d.f[k] ELSE default

\* Python truthiness of the values the handlers test.
Truthy(v) ==
    CASE v.t = "null" -> FALSE
      [] v.t = "num" -> v.n # 0
      [] v.t = "str" -> v.s # ""
      [] v.t = "obj" -> DOMAIN v.f # {}
      [] OTHER -> TRUE

\* str(x): the text of a value, kept apart from the value itself.
Str(x) == [t |-> "text", of |-> x]

\* An exception instance; str(e) is its message.
Exc(type, msg) == [t |-> "exc", type |-> type, msg |-> msg]
StrExc(e) == e.msg

(***************************************************************************)
(* Constants of api_server.py and the schemas of server.py.                *)
(***************************************************************************)
ALLOWED_USERS == {"patunalu", "MrJohn91"}

\* The list TOOLS is bound to when the module is loaded.
ToolCatalog ==
    << [name |-> "programs_list",
        description |-> "Search and filter educational programs",
        inputSchema |-> {"program_name", "country_name", "institution_name",
                         "max_tuition", "limit", "offset"}],
       [name |-> "rank_programs",
        description |-> "Get ranked program recommendations",
        inputSchema |-> {"country_name", "institution_name", "max_tuition",
                         "ranking_method", "limit"}] >>

\* ProgramsToolArguments / RankProgramsArguments: field types and defaults.
ProgramsToolArguments ==
    [type |-> [program_name |-> "str", country_name |-> "str",
               institution_name |-> "str", max_tuition |-> "float",
               limit |-> "int", offset |-> "int"],
     default |-> [program_name |-> None, country_name |-> None,
                  institution_name |-> None, max_tuition |-> None,
                  limit |-> JNum(20), offset |-> JNum(0)]]

RankProgramsArguments ==
    [type |-> [country_name |-> "str", institution_name |-> "str",
               max_tuition |-> "float", ranking_method |-> "str",
               limit |-> "int"],
     default |-> [country_name |-> None, institution_name |-> None,
                  max_tuition |-> None, ranking_method |-> JStr("popularity"),
                  limit |-> JNum(10)]]

\* Every field is Optional[...]: null passes, otherwise the JSON type must fit.
FieldOk(type, v) ==
    \/ v.t = "null"
    \/ type = "str" /\ v.t = "str"
    \/ type \in {"int", "float"} /\ v.t = "num"

\* Faulty variant of Construct: the values are taken as they come, their types
\* unchecked.
Construct_unvalidated(model, tool_args) ==
    IF ~HasGet(tool_args)
    THEN [kind |-> "raise",
          exc |-> Exc("TypeError", "argument after ** must be a mapping")]
    ELSE [kind |-> "return",
          args |-> [k \in DOMAIN model.type |->
                      IF k \in DOMAIN tool_args.f THEN tool_args.f[k]
                      ELSE model.default[k]]]

\* Model(**tool_args): a non-mapping cannot be unpacked, a field of the wrong
\* type fails validation, unknown keys are ignored, absent fields get defaults.
Construct(model, tool_args) ==
    IF ~HasGet(tool_args)
    THEN [kind |-> "raise",
          exc |-> Exc("TypeError", "argument after ** must be a mapping")]
    ELSE IF \E k \in DOMAIN model.type \cap DOMAIN tool_args.f :
                ~FieldOk(model.type[k], tool_args.f[k])
    THEN [kind |-> "raise", exc |-> Exc("ValidationError", "validation error")]
    ELSE [kind |-> "return",
          args |-> [k \in DOMAIN model.type |->
                      IF k \in DOMAIN tool_args.f THEN tool_args.f[k]
                      ELSE model.default[k]]]

(***************************************************************************)
(* mcp_response and mcp_handler (api_server.py).                           *)
(***************************************************************************)
ErrorObj(code, message) == JObj([code |-> code, message |-> message])

\* Faulty variant of mcp_response: the result key is always written.
mcp_response_both(request_id, result, error) ==
    IF Truthy(error)
    THEN [jsonrpc |-> "2.0", id |-> request_id, result |-> result, error |-> error]
    ELSE [jsonrpc |-> "2.0", id |-> request_id, result |-> result]

mcp_response(request_id, result, error) ==
    IF Truthy(error)
    THEN [jsonrpc |-> "2.0", id |-> request_id, error |-> error]
    ELSE [jsonrpc |-> "2.0", id |-> request_id, result |-> result]

Return(resp) == [kind |-> "return", resp |-> resp]
Raise(exc) == [kind |-> "raise", exc |-> exc]
NoGet == Exc("AttributeError", "object has no attribute 'get'")

usage_guide ==
    [description |-> "EduMatch Program Discovery Assistant",
     available_tools |-> {"programs_list", "rank_programs"},
     data_insights |-> {"metrics", "cost_info", "locations"}]

InitializeResult ==
    [protocolVersion |-> "2024-11-05",
     capabilities |-> [tools |-> EmptyDict, resources |-> EmptyDict,
                       prompts |-> EmptyDict],
     serverInfo |-> [name |-> "EduMatch MCP Server", version |-> "1.0.0"]]

PromptsListResult ==
    [prompts |-> << [name |-> "program_summary",
                     description |-> "Template for creating user-friendly program summaries and recommendations",
                     arguments |-> <<>>] >>]

PromptsGetResult ==
    [description |-> "Template for creating user-friendly program summaries and recommendations",
     messages |-> << [role |-> "user",
                      content |-> [type |-> "text",
                                   text |-> "program_summary template"]] >>]

ResourcesListResult ==
    [resources |-> << [uri |-> "guide://usage", name |-> "Usage Guide",
                       description |-> "Quick reference guide for using the EduMatch MCP server effectively",
                       mimeType |-> "application/json"] >>]

ResourcesReadResult ==
    [contents |-> << [uri |-> "guide://usage", mimeType |-> "application/json",
                      text |-> Str(usage_guide)] >>]

\* Faulty variant of tools_call: a name that is not rank_programs is served by
\* programs_list.
tools_call_default(request_id, params) ==
    IF ~HasGet(params) THEN Raise(NoGet)
    ELSE
    LET tool_name == Get(params, "name", None)
        tool_args == Get(params, "arguments", EmptyDict)
    IN  IF tool_name = JStr("rank_programs")
        THEN LET a == Construct(RankProgramsArguments, tool_args)
             IN  IF a.kind = "raise" THEN a
                 ELSE [kind |-> "call", tool |-> "rank_programs", args |-> a.args]
        ELSE LET a == Construct(ProgramsToolArguments, tool_args)
             IN  IF a.kind = "raise" THEN a
                 ELSE [kind |-> "call", tool |-> "programs_list", args |-> a.args]

\* The tools/call branch up to the call of the tool: the tool and its
\* validated arguments, an early return, or an exception.
tools_call(request_id, params) ==
    IF ~HasGet(params) THEN Raise(NoGet)
    ELSE
    LET tool_name == Get(params, "name", None)
        tool_args == Get(params, "arguments", EmptyDict)
    IN  IF tool_name = JStr("programs_list")
        THEN LET a == Construct(ProgramsToolArguments, tool_args)
             IN  IF a.kind = "raise" THEN a
                 ELSE [kind |-> "call", tool |-> "programs_list", args |-> a.args]
        ELSE IF tool_name = JStr("rank_programs")
        THEN LET a == Construct(RankProgramsArguments, tool_args)
             IN  IF a.kind = "raise" THEN a
                 ELSE [kind |-> "call", tool |-> "rank_programs", args |-> a.args]
        ELSE Return(mcp_response(request_id, None,
                                 ErrorObj(-32601, "Method not found")))

\* Faulty variant of mcp_try: an unknown prompt and an unknown resource are
\* answered with code -32602.
mcp_try_invalid_params(request_id, method, params) ==
    IF method = JStr("initialize")
    THEN Return(mcp_response(request_id, InitializeResult, None))
    ELSE IF method = JStr("tools/list")
    THEN Return(mcp_response(request_id, [tools |-> TOOLS], None))
    ELSE IF method = JStr("tools/call")
    THEN tools_call(request_id, params)
    ELSE IF method = JStr("prompts/list")
    THEN Return(mcp_response(request_id, PromptsListResult, None))
    ELSE IF method = JStr("prompts/get")
    THEN IF ~HasGet(params) THEN Raise(NoGet)
         ELSE IF Get(params, "name", None) = JStr("program_summary")
         THEN Return(mcp_response(request_id, PromptsGetResult, None))
         ELSE Return(mcp_response(request_id, None,
                                  ErrorObj(-32602, "Prompt not found")))
    ELSE IF method = JStr("resources/list")
    THEN Return(mcp_response(request_id, ResourcesListResult, None))
    ELSE IF method = JStr("resources/read")
    THEN IF ~HasGet(params) THEN Raise(NoGet)
         ELSE IF Get(params, "uri", None) = JStr("guide://usage")
         THEN Return(mcp_response(request_id, ResourcesReadResult, None))
         ELSE Return(mcp_response(request_id, None,
                                  ErrorObj(-32602, "Resource not found")))
    ELSE Return(mcp_response(request_id, None,
                             ErrorObj(-32601, "Method not found")))

\* The body of the try statement.
mcp_try(request_id, method, params) ==
    IF method = JStr("initialize")
    THEN Return(mcp_response(request_id, InitializeResult, None))
    ELSE IF method = JStr("tools/list")
    THEN Return(mcp_response(request_id, [tools |-> TOOLS], None))
    ELSE IF method = JStr("tools/call")
    THEN tools_call(request_id, params)
    ELSE IF method = JStr("prompts/list")
    THEN Return(mcp_response(request_id, PromptsListResult, None))
    ELSE IF method = JStr("prompts/get")
    THEN IF ~HasGet(params) THEN Raise(NoGet)
         ELSE IF Get(params, "name", None) = JStr("program_summary")
         THEN Return(mcp_response(request_id, PromptsGetResult, None))
         ELSE Return(mcp_response(request_id, None,
                                  ErrorObj(-32601, "Prompt not found")))
    ELSE IF method = JStr("resources/list")
    THEN Return(mcp_response(request_id, ResourcesListResult, None))
    ELSE IF method = JStr("resources/read")
    THEN IF ~HasGet(params) THEN Raise(NoGet)
         ELSE IF Get(params, "uri", None) = JStr("guide://usage")
         THEN Return(mcp_response(request_id, ResourcesReadResult, None))
         ELSE Return(mcp_response(request_id, None,
                                  ErrorObj(-32601, "Resource not found")))
    ELSE Return(mcp_response(request_id, None,
                             ErrorObj(-32601, "Method not found")))

\* Faulty variant of mcp_except: the error envelope is built without the request's id.
mcp_except_noid(request_id, e) ==
    mcp_response(None, None, ErrorObj(-32603, StrExc(e)))

\* except Exception as e: the handler of the try statement.
mcp_except(request_id, e) ==
    mcp_response(request_id, None, ErrorObj(-32603, StrExc(e)))

\* mcp_handler up to its first tool call.  The three .get calls on
\* request_data stand before the try statement.
mcp_handler(request_data) ==
    IF ~HasGet(request_data) THEN Raise(NoGet)
    ELSE
    LET request_id == Get(request_data, "id", None)
        method == Get(request_data, "method", None)
        params == Get(request_data, "params", EmptyDict)
        r == mcp_try(request_id, method, params)
    IN  IF r.kind = "raise" THEN Return(mcp_except(request_id, r.exc))
        ELSE IF r.kind = "call" THEN [r EXCEPT !.kind = "call"] @@ [request_id |-> request_id]
        ELSE r

\* mcp_handler after the tool returned: the result wrapped as a text block.
mcp_tool_return(request_id, result) ==
    mcp_response(request_id,
                 [content |-> << [type |-> "text", text |-> Str(result)] >>],
                 None)

(***************************************************************************)
(* verify_authorized_user (api_server.py).  A header is the list of its    *)
(* parts between single spaces, as auth_header.split(" ") returns it;      *)
(* NoHeader is the absent header.                                          *)
(***************************************************************************)
NoHeader == <<>>
StartsWithBearer(h) == Len(h) >= 2 /\ h[1] = "Bearer"
HeaderRejected(h) == h = NoHeader \/ h = <<"">> \/ ~StartsWithBearer(h)
AccessToken(h) == h[2]

HTTPException(status_code, detail) ==
    [kind |-> "raise", status |-> status_code, detail |-> detail]

\* Lines 56-58: the header test, before any outbound call.
verify_header(h) ==
    IF HeaderRejected(h)
    THEN HTTPException(401, "GitHub authentication required")
    ELSE [kind |-> "call", token |-> AccessToken(h)]

\* Lines 63-74: what follows requests.get.  The call either raises (no
\* response) or returns a response with a status code and a body; .json()
\* raises on a body that is not JSON and .get on one that is no object.  An
\* exception that is no HTTPException leaves the endpoint uncaught, which
\* the framework answers with status 500.
Uncaught == [kind |-> "raise", status |-> 500, detail |-> "Internal Server Error"]

\* Faulty variant of verify_response: the allow-list is not consulted.
verify_response_noallow(user_resp) ==
    IF user_resp.kind = "raise" THEN Uncaught
    ELSE IF user_resp.status_code # 200
    THEN HTTPException(401, "Invalid GitHub token")
    ELSE IF user_resp.json = Malformed \/ ~HasGet(user_resp.json) THEN Uncaught
    ELSE [kind |-> "return", user_data |-> user_resp.json]

verify_response(user_resp) ==
    IF user_resp.kind = "raise" THEN Uncaught
    ELSE IF user_resp.status_code # 200
    THEN HTTPException(401, "Invalid GitHub token")
    ELSE IF user_resp.json = Malformed \/ ~HasGet(user_resp.json) THEN Uncaught
    ELSE IF Get(user_resp.json, "login", None) \notin {JStr(u) : u \in ALLOWED_USERS}
    THEN HTTPException(403, "Access denied")
    ELSE [kind |-> "return", user_data |-> user_resp.json]

(***************************************************************************)
(* Inputs.                                                                 *)
(***************************************************************************)
Headers ==
    { NoHeader, <<"Basic", "abc">>, <<"Bearer">>, <<"Bearer", "tokA">> }

\* What the identity verifier can answer to one call.
VerifierAnswers ==
    { [kind |-> "response", status_code |-> 200, json |-> j] :
        j \in { JObj([login |-> JStr("patunalu")]), JObj([login |-> JStr("MrJohn91")]),
                JObj([login |-> JStr("stranger")]), JObj([id |-> JNum(1)]),
                Malformed } }
    \cup { [kind |-> "response", status_code |-> 401,
            json |-> JObj([message |-> JStr("Bad credentials")])],
           [kind |-> "raise", status_code |-> 0, json |-> None] }

ArgumentValues ==
    { None, JList,
      JObj([limit |-> JNum(2), extra |-> JNum(1)]),
      JObj([limit |-> JStr("abc")]) }

ToolParams ==
    { JObj([name |-> JStr(n)]) : n \in {"programs_list", "rank_programs", "bogus"} }
    \cup { JObj([name |-> JStr(n), arguments |-> a]) :
             n \in {"programs_list", "rank_programs"}, a \in ArgumentValues }

MethodParams ==
    { <<JStr(m), p>> : m \in {"initialize", "tools/list", "prompts/list",
                              "resources/list", "bogus"},
                       p \in {EmptyDict} }
    \cup { <<JStr("initialize"), None>>, <<None, EmptyDict>> }
    \cup { <<JStr("tools/call"), p>> : p \in {None, JList, EmptyDict} \cup ToolParams }
    \cup { <<JStr("prompts/get"), p>> :
             p \in {None, JObj([name |-> JStr("program_summary")]),
                    JObj([name |-> JStr("other")])} }
    \cup { <<JStr("resources/read"), p>> :
             p \in {EmptyDict, JObj([uri |-> JStr("guide://usage")]),
                    JObj([uri |-> JStr("guide://other")])} }

Body(i, mp) == JObj([id |-> i, method |-> mp[1], params |-> mp[2]])
BodyNoId(mp) == JObj([method |-> mp[1], params |-> mp[2]])

\* The requests submitted with every form of id: one per kind of outcome.
IdProbes ==
    { <<JStr("initialize"), EmptyDict>>, <<JStr("bogus"), EmptyDict>>,
      <<JStr("tools/call"), None>> }

\* The JSON bodies request.json() can return: objects with and without id,
\* method and params, and JSON values that are no object.
Bodies ==
    { Body(JNum(1), mp) : mp \in MethodParams }
    \cup { Body(i, mp) : i \in {None, JStr("1")}, mp \in IdProbes }
    \cup { BodyNoId(mp) : mp \in IdProbes }
    \cup { JObj([id |-> JNum(1), method |-> JStr("tools/call")]) }
    \cup { EmptyDict, JList, None, JStr("text") }

\* Bodies of the direct routes, which the framework parses into the schema.
DirectBodies == { EmptyDict, JList, JObj([limit |-> JStr("abc")]) }

RpcRoutes == {"POST /", "POST /streamable"}
DirectRoutes == {"POST /programs", "POST /rank"}
ProtectedRoutes == RpcRoutes \cup DirectRoutes
PublicRoutes == {"GET /", "GET /usage", "GET /sse"}

NoVal == [t |-> "unset"]
NoCall == [pc |-> "none"]
NoLocals ==
    [hdr |-> NoHeader, user_resp |-> NoVal, verdict |-> NoVal, body |-> NoVal,
     tool |-> "-", args |-> NoVal, request_id |-> NoVal, result |-> NoVal,
     http |-> NoVal]

Init ==
    /\ pc = [r \in Requests |-> "idle"]
    /\ route = [r \in Requests |-> "-"]
    /\ auth = [r \in Requests |-> FALSE]
    /\ running = NoTask
    /\ cur = NoLocals
    /\ conns = [connections |-> 0, cursors |-> 0]
    /\ spc = [s \in Streams |-> "none"]
    /\ cancelled = [s \in Streams |-> FALSE]
    /\ events = [s \in Streams |-> <<>>]
    /\ TOOLS = ToolCatalog
    /\ table = <<>>
    /\ call = NoCall

streamVars == <<spc, cancelled, events>>
toolVars == <<TOOLS, table, call>>

(***************************************************************************)
(* Requests.  A handler step needs the event loop: the first step of a     *)
(* task takes a free loop, every following step is taken by the task that  *)
(* has it.                                                                 *)
(***************************************************************************)
LoopFree == running = NoTask
Holds(t) == running = t

Http(status, body) == [status |-> status, body |-> body]

\* A client's request reaches the server.
Arrive(r) ==
    /\ pc[r] = "idle"
    /\ pc' = [pc EXCEPT ![r] = "pending"]
    /\ UNCHANGED <<route, auth, running, cur, conns, streamVars, toolVars>>

\* GET /: root().
root(r) ==
    /\ pc[r] = "pending" /\ LoopFree
    /\ running' = r
    /\ route' = [route EXCEPT ![r] = "GET /"]
    /\ cur' = [NoLocals EXCEPT !.http =
                 Http(200, [message |-> "EduMatch MCP Server", status |-> "running"])]
    /\ pc' = [pc EXCEPT ![r] = "responding"]
    /\ UNCHANGED <<auth, conns, streamVars, toolVars>>

\* GET /usage: usage().
usage(r) ==
    /\ pc[r] = "pending" /\ LoopFree
    /\ running' = r
    /\ route' = [route EXCEPT ![r] = "GET /usage"]
    /\ cur' = [NoLocals EXCEPT !.http = Http(200, usage_guide)]
    /\ pc' = [pc EXCEPT ![r] = "responding"]
    /\ UNCHANGED <<auth, conns, streamVars, toolVars>>

DirectModel(rt) ==
    IF rt = "POST /programs" THEN ProgramsToolArguments ELSE RankProgramsArguments
DirectTool(rt) ==
    IF rt = "POST /programs" THEN "programs_list" ELSE "rank_programs"

\* POST /programs and POST /rank: the framework builds `args` from the body
\* before the endpoint runs and answers 422 itself when it cannot; the
\* endpoint then starts with verify_authorized_user.
direct_endpoint(r) ==
    /\ pc[r] = "pending" /\ LoopFree
    /\ \E rt \in DirectRoutes, b \in DirectBodies :
         LET a == Construct(DirectModel(rt), b)
         IN  /\ running' = r
             /\ route' = [route EXCEPT ![r] = rt]
             /\ IF a.kind = "raise"
                THEN /\ cur' = [NoLocals EXCEPT !.http = Http(422, a.exc.msg)]
                     /\ pc' = [pc EXCEPT ![r] = "responding"]
                ELSE /\ cur' = [NoLocals EXCEPT !.args = a.args,
                                                !.tool = DirectTool(rt)]
                     /\ pc' = [pc EXCEPT ![r] = "verify"]
    /\ UNCHANGED <<auth, conns, streamVars, toolVars>>

\* POST / and POST /streamable: the endpoint starts with
\* verify_authorized_user.
rpc_endpoint(r) ==
    /\ pc[r] = "pending" /\ LoopFree
    /\ \E rt \in RpcRoutes : route' = [route EXCEPT ![r] = rt]
    /\ running' = r
    /\ cur' = NoLocals
    /\ pc' = [pc EXCEPT ![r] = "verify"]
    /\ UNCHANGED <<auth, conns, streamVars, toolVars>>

\* Faulty variant of verify_start: a token is taken as verified, without a
\* call of the verifier, while a request accepted earlier is still served.
verify_start_cached(r) ==
    /\ pc[r] = "verify" /\ Holds(r)
    /\ \E h \in Headers :
         LET v == verify_header(h)
         IN  IF v.kind = "raise"
             THEN /\ cur' = [cur EXCEPT !.hdr = h, !.verdict = v]
                  /\ pc' = [pc EXCEPT ![r] = "verified"]
             ELSE IF \E o \in Requests \ {r} : auth[o]
             THEN /\ cur' = [cur EXCEPT !.hdr = h,
                                        !.verdict = [kind |-> "return",
                                                     user_data |-> EmptyDict]]
                  /\ pc' = [pc EXCEPT ![r] = "verified"]
             ELSE /\ cur' = [cur EXCEPT !.hdr = h]
                  /\ pc' = [pc EXCEPT ![r] = "verifier_wait"]
    /\ UNCHANGED <<route, auth, running, conns, streamVars, toolVars>>

\* verify_authorized_user, lines 56-63: the header test, then requests.get,
\* a synchronous call during which the task keeps the event loop.
verify_start(r) ==
    /\ pc[r] = "verify" /\ Holds(r)
    /\ \E h \in Headers :
         LET v == verify_header(h)
         IN  IF v.kind = "raise"
             THEN /\ cur' = [cur EXCEPT !.hdr = h, !.verdict = v]
                  /\ pc' = [pc EXCEPT ![r] = "verified"]
             ELSE /\ cur' = [cur EXCEPT !.hdr = h]
                  /\ pc' = [pc EXCEPT ![r] = "verifier_wait"]
    /\ UNCHANGED <<route, auth, running, conns, streamVars, toolVars>>

\* requests.get returns or raises; lines 64-74 decide.
verifier_answers(r) ==
    /\ pc[r] = "verifier_wait" /\ Holds(r)
    /\ \E a \in VerifierAnswers :
         cur' = [cur EXCEPT !.user_resp = a, !.verdict = verify_response(a)]
    /\ pc' = [pc EXCEPT ![r] = "verified"]
    /\ UNCHANGED <<route, auth, running, conns, streamVars, toolVars>>

\* Faulty variant of after_verify: the endpoint goes on whatever the gate decided.
after_verify_ignored(r) ==
    /\ pc[r] = "verified" /\ Holds(r)
    /\ auth' = [auth EXCEPT ![r] = (cur.verdict.kind = "return")]
    /\ IF route[r] \in DirectRoutes
       THEN /\ cur' = [cur EXCEPT !.hdr = NoHeader, !.user_resp = NoVal,
                                  !.verdict = NoVal]
            /\ pc' = [pc EXCEPT ![r] = "tool"]
            /\ UNCHANGED running
       ELSE /\ cur' = NoLocals
            /\ pc' = [pc EXCEPT ![r] = "reading_body"]
            /\ running' = NoTask
    /\ UNCHANGED <<route, conns, streamVars, toolVars>>

\* The endpoint after `await verify_authorized_user(request)`: an exception
\* ends the request; otherwise a direct route calls its tool at once and an
\* RPC route awaits request.json(), where the task may be suspended.
after_verify(r) ==
    /\ pc[r] = "verified" /\ Holds(r)
    /\ IF cur.verdict.kind = "raise"
       THEN /\ cur' = [NoLocals EXCEPT !.http = Http(cur.verdict.status, cur.verdict.detail)]
            /\ pc' = [pc EXCEPT ![r] = "responding"]
            /\ UNCHANGED <<auth, running>>
       ELSE /\ auth' = [auth EXCEPT ![r] = TRUE]
            /\ IF route[r] \in DirectRoutes
               THEN /\ cur' = [cur EXCEPT !.hdr = NoHeader, !.user_resp = NoVal,
                                          !.verdict = NoVal]
                    /\ pc' = [pc EXCEPT ![r] = "tool"]
                    /\ UNCHANGED running
               ELSE /\ cur' = NoLocals
                    /\ pc' = [pc EXCEPT ![r] = "reading_body"]
                    /\ running' = NoTask
    /\ UNCHANGED <<route, conns, streamVars, toolVars>>

\* request.json() returns the parsed body, or raises on a body that is not
\* JSON (which leaves the endpoint uncaught: status 500).
read_body(r) ==
    /\ pc[r] = "reading_body" /\ LoopFree
    /\ running' = r
    /\ \E b \in Bodies \cup {Malformed} :
         IF b = Malformed
         THEN /\ cur' = [NoLocals EXCEPT !.http = Http(500, "Internal Server Error")]
              /\ pc' = [pc EXCEPT ![r] = "responding"]
         ELSE /\ cur' = [NoLocals EXCEPT !.body = b]
              /\ pc' = [pc EXCEPT ![r] = "mcp_handler"]
    /\ UNCHANGED <<route, auth, conns, streamVars, toolVars>>

\* `return await mcp_handler(request_data)` up to the tool call.
mcp_handler_call(r) ==
    /\ pc[r] = "mcp_handler" /\ Holds(r)
    /\ LET out == mcp_handler(cur.body)
       IN  CASE out.kind = "raise" ->
                  /\ cur' = [cur EXCEPT !.http = Http(500, "Internal Server Error")]
                  /\ pc' = [pc EXCEPT ![r] = "responding"]
             [] out.kind = "return" ->
                  /\ cur' = [cur EXCEPT !.http = Http(200, out.resp)]
                  /\ pc' = [pc EXCEPT ![r] = "responding"]
             [] out.kind = "call" ->
                  /\ cur' = [cur EXCEPT !.tool = out.tool, !.args = out.args,
                                        !.request_id = out.request_id]
                  /\ pc' = [pc EXCEPT ![r] = "tool"]
    /\ UNCHANGED <<route, auth, running, conns, streamVars, toolVars>>

(***************************************************************************)
(* programs_list and rank_programs (server.py).  Both run inside one try   *)
(* statement: get_connection, conn.cursor, cur.execute, cur.fetchall,      *)
(* cur.close, conn.close, then the shaping of the rows; the except clause  *)
(* returns {"error": str(e)}.  Each storage call is synchronous.           *)
(***************************************************************************)
RowSets == { <<>>, <<"row1", "row2">> }

tool_error(e) == [error |-> StrExc(e)]

programs_list_result(args, rows) ==
    [programs |-> rows, count |-> Len(rows),
     filters_applied |-> {k \in DOMAIN args : args[k] # None}]

rank_programs_result(args, rows) ==
    [ranked_programs |-> rows, ranking_method |-> args.ranking_method,
     count |-> Len(rows)]

tool_result(tool, args, rows) ==
    IF tool = "programs_list" THEN programs_list_result(args, rows)
    ELSE rank_programs_result(args, rows)

\* Faulty variant of tool_except: the tool has no except clause, the failure reaches
\* the except clause of mcp_handler.
tool_except_propagates(r, e) ==
    /\ cur' = [cur EXCEPT !.result = tool_error(e),
                          !.http = Http(200, mcp_except(cur.request_id, e))]
    /\ pc' = [pc EXCEPT ![r] = "responding"]

\* The except clause of the tool: the failure becomes the tool's result;
\* nothing is closed.
tool_except(r, e) ==
    /\ cur' = [cur EXCEPT !.result = tool_error(e)]
    /\ pc' = [pc EXCEPT ![r] = "tool_done"]

\* conn = get_connection(): psycopg2.connect returns a connection or raises.
\* The storage server accepts no more than MaxConns connections.
get_connection(r) ==
    /\ pc[r] = "tool" /\ Holds(r)
    /\ \/ /\ conns.connections < MaxConns
          /\ conns' = [conns EXCEPT !.connections = @ + 1]
          /\ pc' = [pc EXCEPT ![r] = "db_cursor"]
          /\ UNCHANGED cur
       \/ /\ tool_except(r, Exc("OperationalError", "connection failed"))
          /\ UNCHANGED conns
    /\ UNCHANGED <<route, auth, running, streamVars, toolVars>>

\* cur = conn.cursor()
cursor(r) ==
    /\ pc[r] = "db_cursor" /\ Holds(r)
    /\ \/ /\ conns' = [conns EXCEPT !.cursors = @ + 1]
          /\ pc' = [pc EXCEPT ![r] = "db_execute"]
          /\ UNCHANGED cur
       \/ /\ tool_except(r, Exc("InterfaceError", "cursor failed"))
          /\ UNCHANGED conns
    /\ UNCHANGED <<route, auth, running, streamVars, toolVars>>

\* cur.execute(query, params)
execute(r) ==
    /\ pc[r] = "db_execute" /\ Holds(r)
    /\ \/ /\ pc' = [pc EXCEPT ![r] = "db_fetch"]
          /\ UNCHANGED cur
       \/ tool_except(r, Exc("ProgrammingError", "query failed"))
    /\ UNCHANGED <<route, auth, running, conns, streamVars, toolVars>>

\* results = cur.fetchall(); cur.close(); conn.close(); the rows are shaped
\* and returned.
fetchall(r) ==
    /\ pc[r] = "db_fetch" /\ Holds(r)
    /\ \/ /\ \E rows \in RowSets :
               cur' = [cur EXCEPT !.result = tool_result(cur.tool, cur.args, rows)]
          /\ conns' = [connections |-> conns.connections - 1,
                       cursors |-> conns.cursors - 1]
          /\ pc' = [pc EXCEPT ![r] = "tool_done"]
       \/ /\ tool_except(r, Exc("OperationalError", "fetch failed"))
          /\ UNCHANGED conns
    /\ UNCHANGED <<route, auth, running, streamVars, toolVars>>

\* The tool has returned: a direct route answers with the raw result,
\* mcp_handler wraps it (lines 138-141).
tool_return(r) ==
    /\ pc[r] = "tool_done" /\ Holds(r)
    /\ cur' = [cur EXCEPT !.http =
                 IF route[r] \in DirectRoutes THEN Http(200, cur.result)
                 ELSE Http(200, mcp_tool_return(cur.request_id, cur.result))]
    /\ pc' = [pc EXCEPT ![r] = "responding"]
    /\ UNCHANGED <<route, auth, running, conns, streamVars, toolVars>>

(***************************************************************************)
(* GET /user: get_user (api_server.py 300-312).  The header test stands    *)
(* before the try statement; requests.get, the status test and             *)
(* user_resp.json() stand inside it, and its clause `except Exception`     *)
(* catches whatever they raise, an HTTPException included.                 *)
(***************************************************************************)
\* The body of the try statement, given what requests.get did.
get_user_try(user_resp) ==
    IF user_resp.kind = "raise"
    THEN Raise(Exc("ConnectionError", "connection failed"))
    ELSE IF user_resp.status_code # 200
    THEN Raise(HTTPException(401, "Failed to get user info"))
    ELSE IF user_resp.json = Malformed
    THEN Raise(Exc("JSONDecodeError", "Expecting value"))
    ELSE [kind |-> "return", value |-> user_resp.json]

\* except Exception as e: raise HTTPException(status_code=500, detail=str(e))
get_user_except(e) == HTTPException(500, Str(e))

\* The response of get_user once requests.get has returned or raised.
get_user_response(user_resp) ==
    LET t == get_user_try(user_resp)
    IN  IF t.kind = "raise"
        THEN LET e == get_user_except(t.exc) IN Http(e.status, e.detail)
        ELSE Http(200, t.value)

\* get_user, lines 302-306: the header test, then requests.get, a
\* synchronous call during which the task keeps the event loop.
get_user(r) ==
    /\ pc[r] = "pending" /\ LoopFree
    /\ running' = r
    /\ route' = [route EXCEPT ![r] = "GET /user"]
    /\ \E h \in Headers :
         IF HeaderRejected(h)
         THEN /\ cur' = [NoLocals EXCEPT !.hdr = h, !.http =
                           Http(401, "Missing or invalid authorization header")]
              /\ pc' = [pc EXCEPT ![r] = "responding"]
         ELSE /\ cur' = [NoLocals EXCEPT !.hdr = h]
              /\ pc' = [pc EXCEPT ![r] = "user_wait"]
    /\ UNCHANGED <<auth, conns, streamVars, toolVars>>

\* requests.get returns or raises; lines 307-311 answer.
get_user_answers(r) ==
    /\ pc[r] = "user_wait" /\ Holds(r)
    /\ \E a \in VerifierAnswers :
         cur' = [cur EXCEPT !.user_resp = a, !.http = get_user_response(a)]
    /\ pc' = [pc EXCEPT ![r] = "responding"]
    /\ UNCHANGED <<route, auth, running, conns, streamVars, toolVars>>

\* The response is sent and the task ends.
respond(r) ==
    /\ pc[r] = "responding" /\ Holds(r)
    /\ pc' = [pc EXCEPT ![r] = "idle"]
    /\ route' = [route EXCEPT ![r] = "-"]
    /\ auth' = [auth EXCEPT ![r] = FALSE]
    /\ running' = NoTask
    /\ cur' = NoLocals
    /\ UNCHANGED <<conns, streamVars, toolVars>>

RequestStep(r) ==
    \/ root(r) \/ usage(r) \/ direct_endpoint(r) \/ rpc_endpoint(r)
    \/ verify_start(r) \/ verifier_answers(r) \/ after_verify(r)
    \/ read_body(r) \/ mcp_handler_call(r)
    \/ get_connection(r) \/ cursor(r) \/ execute(r) \/ fetchall(r)
    \/ tool_return(r) \/ get_user(r) \/ get_user_answers(r) \/ respond(r)

(***************************************************************************)
(* GET /sse: sse_endpoint and its event_generator.  The generator is       *)
(* resumed by the event loop and runs to its next yield or await; when the *)
(* transport reports the disconnect the response's tasks are cancelled,    *)
(* and a cancelled generator is resumed only to be closed.                 *)
(***************************************************************************)
init_msg ==
    [jsonrpc |-> "2.0", method |-> "initialize",
     params |-> [protocolVersion |-> "2024-11-05",
                 capabilities |-> [tools |-> EmptyDict, resources |-> EmptyDict,
                                   prompts |-> EmptyDict],
                 clientInfo |-> [name |-> "EduMatch MCP Server",
                                 version |-> "1.0.0"]]]

tools_msg == [jsonrpc |-> "2.0", method |-> "tools/list", result |-> [tools |-> TOOLS]]

ping_msg == [type |-> "ping"]

Pings(s) == Len(SelectSeq(events[s], LAMBDA e : e = ping_msg))

\* sse_endpoint: the response with the generator is returned; no
\* authorization check.
sse_endpoint(s) ==
    /\ spc[s] = "none" /\ LoopFree
    /\ spc' = [spc EXCEPT ![s] = "opened"]
    /\ UNCHANGED <<toolVars, pc, route, auth, running, cur, conns, cancelled, events>>

\* yield init_msg
yield_init(s) ==
    /\ spc[s] = "opened" /\ LoopFree /\ ~cancelled[s]
    /\ events' = [events EXCEPT ![s] = Append(@, init_msg)]
    /\ spc' = [spc EXCEPT ![s] = "handshake_sent"]
    /\ UNCHANGED <<toolVars, pc, route, auth, running, cur, conns, cancelled>>

\* Faulty variant of yield_tools: the generator adds a descriptor to TOOLS
\* when it sends the catalog.
yield_tools_extends(s) ==
    /\ spc[s] = "handshake_sent" /\ LoopFree /\ ~cancelled[s]
    /\ events' = [events EXCEPT ![s] = Append(@, tools_msg)]
    /\ spc' = [spc EXCEPT ![s] = "catalog_sent"]
    /\ TOOLS' = Append(TOOLS, [name |-> "usage_guide",
                               description |-> "Usage guide",
                               inputSchema |-> {}])
    /\ UNCHANGED <<table, call, pc, route, auth, running, cur, conns, cancelled>>

\* yield tools_msg
yield_tools(s) ==
    /\ spc[s] = "handshake_sent" /\ LoopFree /\ ~cancelled[s]
    /\ events' = [events EXCEPT ![s] = Append(@, tools_msg)]
    /\ spc' = [spc EXCEPT ![s] = "catalog_sent"]
    /\ UNCHANGED <<toolVars, pc, route, auth, running, cur, conns, cancelled>>

\* Faulty variant of yield_ping: the ping loop starts before the catalog is sent.
yield_ping_early(s) ==
    /\ spc[s] \in {"handshake_sent", "catalog_sent", "idle"} /\ LoopFree /\ ~cancelled[s]
    /\ Pings(s) < MaxPings
    /\ events' = [events EXCEPT ![s] = Append(@, ping_msg)]
    /\ spc' = [spc EXCEPT ![s] = "idle"]
    /\ UNCHANGED <<toolVars, pc, route, auth, running, cur, conns, cancelled>>

\* Faulty variant of yield_ping: the generator goes on after the cancellation.
yield_ping_uncancelled(s) ==
    /\ spc[s] \in {"catalog_sent", "idle"} /\ LoopFree
    /\ Pings(s) < MaxPings
    /\ events' = [events EXCEPT ![s] = Append(@, ping_msg)]
    /\ spc' = [spc EXCEPT ![s] = "idle"]
    /\ UNCHANGED <<toolVars, pc, route, auth, running, cur, conns, cancelled>>

\* while True: yield ping; await asyncio.sleep(30).  The first ping follows
\* the catalog at once, each later one the end of a sleep.
yield_ping(s) ==
    /\ spc[s] \in {"catalog_sent", "idle"} /\ LoopFree /\ ~cancelled[s]
    /\ Pings(s) < MaxPings
    /\ events' = [events EXCEPT ![s] = Append(@, ping_msg)]
    /\ spc' = [spc EXCEPT ![s] = "idle"]
    /\ UNCHANGED <<toolVars, pc, route, auth, running, cur, conns, cancelled>>

\* The transport reports that the peer has disconnected: the response's
\* task group is cancelled.
disconnect(s) ==
    /\ spc[s] \in {"opened", "handshake_sent", "catalog_sent", "idle"}
    /\ LoopFree /\ ~cancelled[s]
    /\ cancelled' = [cancelled EXCEPT ![s] = TRUE]
    /\ UNCHANGED <<toolVars, pc, route, auth, running, cur, conns, spc, events>>

\* The cancellation reaches the generator at the yield or the sleep it is
\* suspended at; nothing catches it and the generator ends.
close(s) ==
    /\ cancelled[s] /\ spc[s] # "closed" /\ LoopFree
    /\ spc' = [spc EXCEPT ![s] = "closed"]
    /\ UNCHANGED <<toolVars, pc, route, auth, running, cur, conns, cancelled, events>>

StreamStep(s) ==
    \/ sse_endpoint(s) \/ yield_init(s) \/ yield_tools(s) \/ yield_ping(s)
    \/ disconnect(s) \/ close(s)

Next ==
    \/ \E r \in Requests : Arrive(r) \/ RequestStep(r)
    \/ \E s \in Streams : StreamStep(s)

Spec == Init /\ [][Next]_vars

(***************************************************************************)
(* The storage behind programs_list and rank_programs (server.py): the     *)
(* rows of programs joined with countries and institutions, and the SQL    *)
(* the tools send, evaluated as PostgreSQL evaluates it.  A column value   *)
(* is NULL (None), an integer (JNum), a fraction (Rat) or a text (JStr).   *)
(***************************************************************************)
MaxRows == 4

IsNull(v) == v.t = "null"
Rat(n, d) == [t |-> "rat", n |-> n, d |-> d]
ToRat(v) == IF v.t = "rat" THEN v ELSE Rat(v.n, 1)
RatLt(a, b) == ToRat(a).n * ToRat(b).d < ToRat(b).n * ToRat(a).d
RatEq(a, b) == ToRat(a).n * ToRat(b).d = ToRat(b).n * ToRat(a).d

\* The letters of the texts in use, and the lower-case form ILIKE compares.
Spell ==
    [s \in {"DE", "FR", "TU", "A", "AB", "B", "de", "b", "x"} |->
        CASE s = "DE" -> <<"D", "E">>
          [] s = "FR" -> <<"F", "R">>
          [] s = "TU" -> <<"T", "U">>
          [] s = "A" -> <<"A">>
          [] s = "AB" -> <<"A", "B">>
          [] s = "B" -> <<"B">>
          [] s = "de" -> <<"d", "e">>
          [] s = "b" -> <<"b">>
          [] s = "x" -> <<"x">>]
LowerChar(c) ==
    CASE c = "A" -> "a" [] c = "B" -> "b" [] c = "D" -> "d" [] c = "E" -> "e"
      [] c = "F" -> "f" [] c = "R" -> "r" [] c = "T" -> "t" [] c = "U" -> "u"
      [] OTHER -> c
Lower(w) == [i \in 1 .. Len(w) |-> LowerChar(w[i])]
Contains(w, part) ==
    \E i \in 1 .. Len(w) - Len(part) + 1 : SubSeq(w, i, i + Len(part) - 1) = part

\* column ILIKE '%text%': NULL is no match.
ILike(column, text) ==
    ~IsNull(column) /\ Contains(Lower(Spell[column.s]), Lower(Spell[text.s]))

\* ORDER BY on a text column: the collation's order of two names.
LetterRank(c) == CASE c = "A" -> 1 [] c = "B" -> 2 [] OTHER -> 3
RECURSIVE WordLt(_, _)
WordLt(v, w) ==
    IF w = <<>> THEN FALSE
    ELSE IF v = <<>> THEN TRUE
    ELSE IF LetterRank(Head(v)) # LetterRank(Head(w))
    THEN LetterRank(Head(v)) < LetterRank(Head(w))
    ELSE WordLt(Tail(v), Tail(w))
NameLt(a, b) == WordLt(Spell[a.s], Spell[b.s])

\* The rows a table is filled from.
Program(name, country, tuition, ctr, views, impressions) ==
    [program_name |-> JStr(name), institute_country |-> JStr(country),
     institution_name |-> JStr("TU"), tuition |-> tuition, ctr |-> ctr,
     total_views |-> JNum(views), total_impressions |-> JNum(impressions)]

ProgramRows ==
    << Program("A", "DE", JNum(1000), Rat(1, 2), 2, 10),
       Program("AB", "FR", JNum(2000), Rat(1, 5), 2, 0),
       Program("B", "DE", JNum(0), Rat(1, 5), 1, 30),
       Program("B", "FR", None, Rat(1, 2), 1, 0),
       Program("A", "DE", JNum(1000), JNum(0), 2, 10),
       Program("AB", "FR", JNum(1000), Rat(1, 2), 0, 50),
       Program("A", "DE", JNum(1000), None, 2, 50) >>

\* The tables of at most MaxRows rows; rows that differ only in their place
\* in the table are the same table.
Tables ==
    UNION { { [i \in 1 .. n |-> ProgramRows[f[i]]] :
                f \in { g \in [1 .. n -> 1 .. Len(ProgramRows)] :
                          \A i \in 1 .. n - 1 : g[i] <= g[i + 1] } } :
            n \in 0 .. MaxRows }

\* SQL comparisons: a comparison with NULL is not true.
Gt0(v) == ~IsNull(v) /\ ToRat(v).n > 0
Leq(v, w) == ~IsNull(v) /\ ~IsNull(w) /\ ~RatLt(w, v)

\* The orders in which a query can return the rows `idxs` when `before`
\* holds the pairs ORDER BY puts strictly one before the other; rows it
\* ranks equal come in any order.
RECURSIVE Orderings(_, _)
Orderings(idxs, before) ==
    IF idxs = {} THEN { <<>> }
    ELSE UNION { { <<i>> \o rest : rest \in Orderings(idxs \ {i}, before) } :
                 i \in { j \in idxs : \A k \in idxs : <<k, j>> \notin before } }

\* LIMIT limit OFFSET offset: NULL is no limit and no offset, a negative
\* number is an error of the statement.
LimitOffsetFails(limit, offset) ==
    (~IsNull(limit) /\ limit.n < 0) \/ (~IsNull(offset) /\ offset.n < 0)
LimitOffset(rows, limit, offset) ==
    LET skip == IF IsNull(offset) THEN 0 ELSE offset.n
        last == IF IsNull(limit) \/ skip + limit.n > Len(rows) THEN Len(rows)
                ELSE skip + limit.n
    IN  IF skip >= last THEN <<>> ELSE SubSeq(rows, skip + 1, last)

\* The WHERE clause the tools build: a filter is added for a truthy text
\* argument and for a max_tuition that is not None.
filters(args, p, with_name) ==
    /\ with_name /\ Truthy(args.program_name) => ILike(p.program_name, args.program_name)
    /\ Truthy(args.country_name) => ILike(p.institute_country, args.country_name)
    /\ Truthy(args.institution_name) => ILike(p.institution_name, args.institution_name)
    /\ ~IsNull(args.max_tuition) => Leq(p.tuition, args.max_tuition)

\* Faulty variant of programs_list_query: the statement ends with LIMIT %s and
\* the offset is not sent.
programs_list_query_nooffset(args, rows) ==
    LET matching == { i \in 1 .. Len(rows) : filters(args, rows[i], TRUE) }
        before == { ij \in matching \X matching :
                      NameLt(rows[ij[1]].program_name, rows[ij[2]].program_name) }
    IN  { LimitOffset([k \in 1 .. Len(o) |-> rows[o[k]]], args.limit, None) :
            o \in Orderings(matching, before) }

\* programs_list, lines 69-88: WHERE 1=1 and the filters, ORDER BY
\* p.program_name LIMIT %s OFFSET %s.  The set of results fetchall can give.
programs_list_query(args, rows) ==
    LET matching == { i \in 1 .. Len(rows) : filters(args, rows[i], TRUE) }
        before == { ij \in matching \X matching :
                      NameLt(rows[ij[1]].program_name, rows[ij[2]].program_name) }
    IN  { LimitOffset([k \in 1 .. Len(o) |-> rows[o[k]]], args.limit, args.offset) :
            o \in Orderings(matching, before) }

\* Faulty variant of score_formula: popularity is one more named method and
\* every other value takes the engagement formula.
score_formula_named(ranking_method, p) ==
    IF ranking_method = JStr("popularity")
    THEN Rat(p.total_views.n * 10 + p.total_impressions.n, 10)
    ELSE IF ranking_method = JStr("cost_effectiveness")
    THEN IF IsNull(p.tuition) \/ p.tuition.n = 0 THEN None
         ELSE Rat(p.total_views.n * 1000, p.tuition.n)
    ELSE IF IsNull(p.ctr) THEN None ELSE Rat(ToRat(p.ctr).n * 100, ToRat(p.ctr).d)

\* rank_programs, lines 133-138: the score formula of the ranking method.
score_formula(ranking_method, p) ==
    IF ranking_method = JStr("engagement")
    THEN IF IsNull(p.ctr) THEN None ELSE Rat(ToRat(p.ctr).n * 100, ToRat(p.ctr).d)
    ELSE IF ranking_method = JStr("cost_effectiveness")
    THEN IF IsNull(p.tuition) \/ p.tuition.n = 0 THEN None
         ELSE Rat(p.total_views.n * 1000, p.tuition.n)
    ELSE Rat(p.total_views.n * 10 + p.total_impressions.n, 10)

\* ORDER BY ranking_score DESC: NULL scores come first, then the larger
\* score before the smaller.
ScoreBefore(a, b) ==
    IF IsNull(a) THEN ~IsNull(b) ELSE ~IsNull(b) /\ RatLt(b, a)

\* Faulty variant of rank_programs_query: the records without clicks or views
\* are removed from the rows the statement returned, after ORDER BY and LIMIT.
rank_programs_query_late(args, rows) ==
    LET scored == [i \in 1 .. Len(rows) |->
                     rows[i] @@ [ranking_score |->
                                   score_formula(args.ranking_method, rows[i])]]
        matching == { i \in 1 .. Len(rows) : filters(args, rows[i], FALSE) }
        before == { ij \in matching \X matching :
                      ScoreBefore(scored[ij[1]].ranking_score,
                                  scored[ij[2]].ranking_score) }
    IN  { SelectSeq(LimitOffset([k \in 1 .. Len(o) |-> scored[o[k]]], args.limit, None),
                    LAMBDA p : Gt0(p.ctr) /\ Gt0(p.total_views)) :
            o \in Orderings(matching, before) }

\* rank_programs, lines 140-171: WHERE p.ctr > 0 AND p.total_views > 0 and
\* the filters, ORDER BY ranking_score DESC LIMIT %s.
rank_programs_query(args, rows) ==
    LET scored == [i \in 1 .. Len(rows) |->
                     rows[i] @@ [ranking_score |->
                                   score_formula(args.ranking_method, rows[i])]]
        matching == { i \in 1 .. Len(rows) :
                        /\ Gt0(rows[i].ctr) /\ Gt0(rows[i].total_views)
                        /\ filters(args, rows[i], FALSE) }
        before == { ij \in matching \X matching :
                      ScoreBefore(scored[ij[1]].ranking_score,
                                  scored[ij[2]].ranking_score) }
    IN  { LimitOffset([k \in 1 .. Len(o) |-> scored[o[k]]], args.limit, None) :
            o \in Orderings(matching, before) }

\* `float(x) if x else None` and `float(x) if x else 0` on a fetched value.
RowTruthy(v) == ~IsNull(v) /\ ToRat(v).n # 0
FloatOrNone(v) == IF RowTruthy(v) THEN v ELSE None
FloatOrZero(v) == IF RowTruthy(v) THEN v ELSE JNum(0)

\* Lines 92-105 and 178-192: one fetched row as the tool reports it.
programs_list_row(row) ==
    [program_name |-> row.program_name, country |-> row.institute_country,
     institution |-> row.institution_name, tuition |-> FloatOrNone(row.tuition),
     ctr |-> FloatOrNone(row.ctr), total_views |-> row.total_views,
     total_impressions |-> row.total_impressions]
rank_programs_row(row) ==
    programs_list_row(row) @@ [ranking_score |-> FloatOrZero(row.ranking_score)]

\* The arguments mappings a caller can send to the two tools.
LimitInputs ==
    { <<>>, [limit |-> JNum(1)], [limit |-> JNum(2)], [limit |-> JNum(0)],
      [limit |-> JNum(-1)], [limit |-> None] }
OffsetInputs == { <<>>, [offset |-> JNum(1)], [offset |-> JNum(-1)], [offset |-> None] }
ListFilterInputs ==
    { <<>>, [program_name |-> JStr("b")], [country_name |-> JStr("de")],
      [max_tuition |-> JNum(1000)] }
RankFilterInputs ==
    { <<>>, [country_name |-> JStr("de")], [max_tuition |-> JNum(1000)] }
MethodInputs ==
    { <<>>, [ranking_method |-> None] }
    \cup { [ranking_method |-> JStr(m)] :
             m \in {"popularity", "engagement", "cost_effectiveness", "bogus"} }
Unfit == JObj([limit |-> JStr("abc")])

ToolInputs(tool) ==
    IF tool = "programs_list"
    THEN { JObj(l @@ o @@ f) :
             l \in LimitInputs, o \in OffsetInputs, f \in ListFilterInputs } \cup {Unfit}
    ELSE { JObj(l @@ m @@ f) :
             l \in LimitInputs, m \in MethodInputs, f \in RankFilterInputs } \cup {Unfit}

ToolModel(tool) ==
    IF tool = "programs_list" THEN ProgramsToolArguments ELSE RankProgramsArguments

mainVars == <<pc, route, auth, running, cur, conns, spc, cancelled, events>>

\* args = ProgramsToolArguments(**tool_args) / RankProgramsArguments(**tool_args),
\* and the same models built by the framework on the direct routes: the
\* tool is called with the model, or the construction raises.
tool_arguments ==
    /\ call = NoCall
    /\ \E tool \in {"programs_list", "rank_programs"} :
         \E tool_args \in ToolInputs(tool) :
           LET a == Construct(ToolModel(tool), tool_args)
           IN  call' = [pc |-> IF a.kind = "raise" THEN "rejected" ELSE "called",
                        tool |-> tool, tool_args |-> tool_args,
                        args |-> IF a.kind = "raise" THEN NoVal ELSE a.args,
                        params |-> NoVal, results |-> NoVal, ret |-> NoVal]
    /\ UNCHANGED <<mainVars, TOOLS, table>>

\* programs_list up to fetchall: the statement is run with
\* [..., args.limit, args.offset]; a failing statement is caught by the
\* except clause.
programs_list_execute ==
    /\ call.pc = "called" /\ call.tool = "programs_list"
    /\ LET params == [limit |-> call.args.limit, offset |-> call.args.offset]
       IN  IF LimitOffsetFails(params.limit, params.offset)
           THEN call' = [call EXCEPT !.pc = "returned", !.params = params,
                           !.ret = tool_error(Exc("DataError", "must not be negative"))]
           ELSE \E results \in programs_list_query(call.args, table) :
                  call' = [call EXCEPT !.pc = "fetched", !.params = params,
                                       !.results = results]
    /\ UNCHANGED <<mainVars, TOOLS, table>>

\* programs_list after fetchall: the rows are shaped and returned.
programs_list_return ==
    /\ call.pc = "fetched" /\ call.tool = "programs_list"
    /\ call' = [call EXCEPT !.pc = "returned",
                  !.ret = programs_list_result(call.args,
                            [i \in 1 .. Len(call.results) |->
                               programs_list_row(call.results[i])])]
    /\ UNCHANGED <<mainVars, TOOLS, table>>

\* rank_programs up to fetchall: the statement is run with [..., args.limit].
rank_programs_execute ==
    /\ call.pc = "called" /\ call.tool = "rank_programs"
    /\ LET params == [limit |-> call.args.limit]
       IN  IF LimitOffsetFails(params.limit, None)
           THEN call' = [call EXCEPT !.pc = "returned", !.params = params,
                           !.ret = tool_error(Exc("DataError", "must not be negative"))]
           ELSE \E results \in rank_programs_query(call.args, table) :
                  call' = [call EXCEPT !.pc = "fetched", !.params = params,
                                       !.results = results]
    /\ UNCHANGED <<mainVars, TOOLS, table>>

\* rank_programs after fetchall: the rows are shaped and returned.
rank_programs_return ==
    /\ call.pc = "fetched" /\ call.tool = "rank_programs"
    /\ call' = [call EXCEPT !.pc = "returned",
                  !.ret = rank_programs_result(call.args,
                            [i \in 1 .. Len(call.results) |->
                               rank_programs_row(call.results[i])])]
    /\ UNCHANGED <<mainVars, TOOLS, table>>

\* One tool call against a table of any content, the storage answering.
ToolInit ==
    /\ pc = [r \in Requests |-> "idle"]
    /\ route = [r \in Requests |-> "-"]
    /\ auth = [r \in Requests |-> FALSE]
    /\ running = NoTask
    /\ cur = NoLocals
    /\ conns = [connections |-> 0, cursors |-> 0]
    /\ spc = [s \in Streams |-> "none"]
    /\ cancelled = [s \in Streams |-> FALSE]
    /\ events = [s \in Streams |-> <<>>]
    /\ TOOLS = ToolCatalog
    /\ table \in Tables
    /\ call = NoCall

ToolNext ==
    \/ tool_arguments
    \/ programs_list_execute \/ programs_list_return
    \/ rank_programs_execute \/ rank_programs_return

ToolSpec == ToolInit /\ [][ToolNext]_vars

(***************************************************************************)
(* Properties.                                                             *)
(***************************************************************************)
\* The request whose mcp_handler call has ended and is being answered.
Answering(r) == pc[r] = "responding" /\ route[r] \in RpcRoutes /\ cur.body # NoVal
\* mcp_handler returned an envelope (it did not raise).
Enveloped(r) == Answering(r) /\ cur.http.status = 200
SubmittedId(b) == IF "id" \in DOMAIN b.f THEN b.f["id"] ELSE [t |-> "null"]
HasKey(m, k) == k \in DOMAIN m
ToolFailed == cur.result # NoVal /\ HasKey(cur.result, "error")
HandlerPcs == {"mcp_handler", "tool", "db_cursor", "db_execute", "db_fetch", "tool_done"}

\* C1: every response envelope of mcp_handler carries the id of its request
\* exactly, and null when the request has no id or a null id, whatever the
\* method and whether the outcome is a result or an error.
C1_IdEchoed ==
    \A r \in Requests :
        Enveloped(r) => cur.http.body.id = SubmittedId(cur.body)

\* An error envelope answering a request whose id is the number 1.
C1_Witness ==
    \E r \in Requests :
        /\ Enveloped(r) /\ HasKey(cur.http.body, "error")
        /\ SubmittedId(cur.body) = JNum(1)
        /\ cur.http.body.error.f.code = -32603

\* C2: every response envelope of mcp_handler has exactly one of the keys
\* result and error.
C2_ResultXorError ==
    \A r \in Requests :
        Enveloped(r) =>
            (HasKey(cur.http.body, "result") /\ ~HasKey(cur.http.body, "error"))
            \/ (~HasKey(cur.http.body, "result") /\ HasKey(cur.http.body, "error"))

\* An error envelope for an unknown method, and so without a result key.
C2_Witness ==
    \E r \in Requests :
        /\ Enveloped(r) /\ HasKey(cur.http.body, "error")
        /\ cur.http.body.error.f.code = -32601
        /\ HasKey(cur.body.f, "method") /\ cur.body.f["method"] = JStr("bogus")

C4_AuthBeforeHandlers ==
    \A r \in Requests :
        /\ pc[r] \in HandlerPcs => route[r] \in ProtectedRoutes /\ auth[r]
        /\ route[r] \in PublicRoutes =>
              ~auth[r] /\ pc[r] \notin {"verify", "verifier_wait", "verified"}

\* rank_programs about to run for an authorized request on POST /rank.
C4_Witness ==
    \E r \in Requests : pc[r] = "tool" /\ route[r] = "POST /rank" /\ auth[r]

\* The gate's decision for request r is made (pc "verified"): what the
\* header and the verifier's answer were, and what was decided.
BadHeader(h) == h = <<>> \/ h = <<"">> \/ Len(h) < 2 \/ h[1] # "Bearer"
Decided(status) == cur.verdict.kind = "raise" /\ cur.verdict.status = status
Succeeded == cur.verdict.kind = "return"
Allowed(j) == j.t = "obj" /\ "login" \in DOMAIN j.f
              /\ j.f["login"] \in {[t |-> "str", s |-> "patunalu"], [t |-> "str", s |-> "MrJohn91"]}

\* C5 as claimed: the gate has exactly four outcomes, in this order: header
\* missing or not starting with "Bearer " -> 401; verifier response not a
\* success -> 401; principal not in the allow-list -> 403; otherwise
\* success.
C5_Claimed ==
    \A r \in Requests :
        pc[r] = "verified" =>
            IF BadHeader(cur.hdr) THEN Decided(401)
            ELSE IF ~(cur.user_resp.kind = "response" /\ cur.user_resp.status_code = 200)
            THEN Decided(401)
            ELSE IF ~Allowed(cur.user_resp.json) THEN Decided(403)
            ELSE Succeeded

\* C5: the gate decides in this order: header missing or not starting with
\* "Bearer " -> 401 without a verifier call; the verifier call raising -> the
\* exception leaves the endpoint uncaught (status 500); verifier status not
\* 200 -> 401; a 200 answer whose body is no JSON object -> uncaught
\* exception (status 500); principal not in the allow-list -> 403; otherwise
\* success.  A request with a rejected token or a principal outside the
\* allow-list never succeeds.
C5_GateOutcomes ==
    \A r \in Requests :
        /\ pc[r] = "verified" =>
            IF BadHeader(cur.hdr) THEN Decided(401) /\ cur.user_resp = NoVal
            ELSE IF cur.user_resp.kind = "raise" THEN Decided(500)
            ELSE IF cur.user_resp.status_code # 200 THEN Decided(401)
            ELSE IF cur.user_resp.json.t # "obj" THEN Decided(500)
            ELSE IF ~Allowed(cur.user_resp.json) THEN Decided(403)
            ELSE Succeeded
        /\ pc[r] = "verified" /\ Succeeded =>
            /\ ~BadHeader(cur.hdr)
            /\ cur.user_resp.kind = "response" /\ cur.user_resp.status_code = 200
            /\ Allowed(cur.user_resp.json)

\* The gate has answered 403 to a verified principal outside the allow-list.
C5_Witness ==
    \E r \in Requests :
        /\ pc[r] = "verified" /\ Decided(403)
        /\ cur.hdr = <<"Bearer", "tokA">>
        /\ cur.user_resp.status_code = 200
        /\ cur.user_resp.json = JObj([login |-> JStr("stranger")])

\* The kind of an emitted event.
IsHandshake(e) == HasKey(e, "method") /\ e.method = "initialize"
IsCatalog(e) == HasKey(e, "method") /\ e.method = "tools/list"
IsPing(e) == HasKey(e, "type") /\ e.type = "ping"

\* C6: a stream emits exactly one handshake event first, then exactly one
\* catalog event, then only ping events, and its state follows Opened ->
\* Handshake-sent -> Catalog-sent -> Idle with the events emitted.
C6_EventOrder ==
    \A s \in Streams :
        /\ \A i \in 1 .. Len(events[s]) :
              /\ IsHandshake(events[s][i]) <=> i = 1
              /\ IsCatalog(events[s][i]) <=> i = 2
              /\ IsPing(events[s][i]) <=> i >= 3
        /\ spc[s] \in {"none", "opened"} => events[s] = <<>>
        /\ spc[s] = "handshake_sent" => Len(events[s]) = 1
        /\ spc[s] = "catalog_sent" => Len(events[s]) = 2
        /\ spc[s] = "idle" => Len(events[s]) >= 3

\* A stream in its ping loop after handshake, catalog and two pings.
C6_Witness ==
    \E s \in Streams :
        /\ spc[s] = "idle" /\ Len(events[s]) = 4
        /\ IsPing(events[s][3]) /\ IsPing(events[s][4])

\* C7: once the transport has reported the disconnect the stream emits no
\* further event and can only go to Closed, where it stays; the ping loop is
\* left only by a disconnect, never on its own, and a closed stream is not
\* reopened.
C7_NoEventAfterDisconnect ==
    [][\A s \in Streams :
          /\ cancelled[s] =>
                /\ events'[s] = events[s]
                /\ cancelled'[s]
                /\ spc'[s] \in {spc[s], "closed"}
          /\ spc[s] = "idle" /\ spc'[s] # "idle" => cancelled[s] /\ spc'[s] = "closed"
          /\ spc[s] = "closed" => spc'[s] = "closed"]_vars

\* C7 (progress): under the event loop's fair scheduling a disconnected
\* stream reaches Closed.
C7_DisconnectCloses ==
    /\ C7_NoEventAfterDisconnect
    /\ \A s \in Streams : cancelled[s] ~> spc[s] = "closed"

\* A stream closed by a disconnect that came during its ping loop.
C7_Witness ==
    \E s \in Streams :
        cancelled[s] /\ spc[s] = "closed" /\ Len(events[s]) >= 3

\* The synchronous calls a request can be waiting on.
WaitingOnVerifier(r) == pc[r] = "verifier_wait"
WaitingOnStorage(r) == pc[r] \in {"tool", "db_cursor", "db_execute", "db_fetch"}
PingDue(s) == spc[s] \in {"catalog_sent", "idle"} /\ ~cancelled[s] /\ Pings(s) < MaxPings

\* C8 as claimed: while a request waits on the identity verifier or on the
\* data provider, every other request in flight and every stream's ping
\* loop can take a step.
C8_Claimed ==
    \A r \in Requests :
        WaitingOnVerifier(r) \/ WaitingOnStorage(r) =>
            /\ \A o \in Requests \ {r} :
                  pc[o] \in {"pending", "reading_body"} => ENABLED RequestStep(o)
            /\ \A s \in Streams : PingDue(s) => ENABLED yield_ping(s)

\* C9 as claimed: when no tool call is under way no storage connection and
\* no cursor is open.
C9_Claimed ==
    (\A r \in Requests : pc[r] \notin {"db_cursor", "db_execute", "db_fetch"})
        => conns.connections = 0 /\ conns.cursors = 0

\* C10 as claimed: mcp_handler returns a response envelope for every JSON
\* body handed to it.
C10_Claimed ==
    \A r \in Requests :
        Answering(r) =>
            /\ cur.http.status = 200
            /\ HasKey(cur.http.body, "jsonrpc")
            /\ HasKey(cur.http.body, "result") \/ HasKey(cur.http.body, "error")

\* The body being answered is a tools/call whose params is a mapping; the
\* name it asks for (null when params has no name).
IsToolsCall(b) ==
    /\ b.t = "obj"
    /\ HasKey(b.f, "method") /\ b.f["method"] = [t |-> "str", s |-> "tools/call"]
    /\ HasKey(b.f, "params") => b.f["params"].t = "obj"
ParamsOf(b) == IF HasKey(b.f, "params") THEN b.f["params"].f ELSE <<>>
NameOf(b) == IF HasKey(ParamsOf(b), "name") THEN ParamsOf(b)["name"] ELSE [t |-> "null"]
ArgumentsOf(b) ==
    IF HasKey(ParamsOf(b), "arguments") THEN ParamsOf(b)["arguments"]
    ELSE [t |-> "obj", f |-> <<>>]
Registered == {[t |-> "str", s |-> "programs_list"], [t |-> "str", s |-> "rank_programs"]}
ErrorCode(r) == IF HasKey(cur.http.body, "error") THEN cur.http.body.error.f.code ELSE 0

\* C11: a tools/call whose params.name is not programs_list or rank_programs
\* (an absent name included) is answered with an error envelope of code
\* -32601 carrying the submitted id, and neither a tool nor the storage has
\* been called for it.
C11_UnknownTool ==
    \A r \in Requests :
        /\ Answering(r) /\ IsToolsCall(cur.body) /\ NameOf(cur.body) \notin Registered =>
              /\ cur.http.status = 200
              /\ ErrorCode(r) = -32601
              /\ ~HasKey(cur.http.body, "result")
              /\ cur.http.body.id = SubmittedId(cur.body)
              /\ cur.tool = "-" /\ cur.args = NoVal /\ cur.result = NoVal
        /\ pc[r] \in HandlerPcs \ {"mcp_handler"} /\ route[r] \in RpcRoutes =>
              IsToolsCall(cur.body) /\ NameOf(cur.body) \in Registered

\* A tools/call without a name answered with -32601.
C11_Witness ==
    \E r \in Requests :
        /\ Answering(r) /\ IsToolsCall(cur.body)
        /\ HasKey(cur.body.f, "params") /\ ~HasKey(ParamsOf(cur.body), "name")
        /\ ErrorCode(r) = -32601

\* A rank_programs / programs_list call that has returned its rows.
Ranked == call.pc = "returned" /\ call.tool = "rank_programs"
            /\ HasKey(call.ret, "ranked_programs")
Listed == call.pc = "returned" /\ call.tool = "programs_list"
            /\ HasKey(call.ret, "programs")
Method(m) == call.args.ranking_method = [t |-> "str", s |-> m]
\* a < b for two reported numbers (fractions compared as numbers).
NumLess(a, b) ==
    LET an == a.n  ad == IF a.t = "rat" THEN a.d ELSE 1
        bn == b.n  bd == IF b.t = "rat" THEN b.d ELSE 1
    IN  an * bd < bn * ad

\* C12 as claimed: the sequence rank_programs returns is ordered by
\* non-increasing reported ranking_score, holds at most `limit` records, and
\* under engagement a record with higher ctr precedes one with lower ctr.
C12_Claimed ==
    Ranked =>
        LET out == call.ret.ranked_programs
        IN  /\ \A i, j \in 1 .. Len(out) :
                  i < j => ~NumLess(out[i].ranking_score, out[j].ranking_score)
            /\ call.args.limit.t = "num" => Len(out) <= call.args.limit.n
            /\ Method("engagement") =>
                  \A i, j \in 1 .. Len(out) : i < j => ~NumLess(out[i].ctr, out[j].ctr)

\* C13 as claimed: under cost_effectiveness no record with zero or null
\* tuition is among the ranked_programs returned.
C13_Claimed ==
    Ranked /\ Method("cost_effectiveness") =>
        \A i \in 1 .. Len(call.ret.ranked_programs) :
            /\ call.ret.ranked_programs[i].tuition.t = "num"
            /\ call.ret.ranked_programs[i].tuition.n # 0

\* The rows of the table that have clicks and views and pass the call's
\* filters.
Eligible ==
    { i \in 1 .. Len(table) :
        /\ table[i].ctr.t # "null" /\ table[i].ctr.n > 0
        /\ table[i].total_views.n > 0
        /\ filters(call.args, table[i], FALSE) }

\* C14: whatever the ranking method and the filters, every record
\* rank_programs returns has ctr > 0 and total_views > 0, and the records
\* without take no place of the limit: the output holds min(limit, number of
\* eligible records) records.
C14_HardFilter ==
    Ranked =>
        LET out == call.ret.ranked_programs
        IN  /\ \A i \in 1 .. Len(out) :
                  /\ out[i].ctr.t # "null" /\ out[i].ctr.n > 0
                  /\ out[i].total_views.n > 0
            /\ Len(out) = IF call.args.limit.t = "num"
                             /\ call.args.limit.n < Cardinality(Eligible)
                          THEN call.args.limit.n ELSE Cardinality(Eligible)

\* A popularity ranking with limit 1 over a table whose most viewed record
\* has no ctr: one record is returned.
C14_Witness ==
    /\ Ranked /\ Method("popularity")
    /\ call.args.limit = JNum(1) /\ Len(call.ret.ranked_programs) = 1
    /\ \E i \in 1 .. Len(table) :
          table[i].ctr.t = "null" /\ table[i].total_impressions.n = 50

\* The rows of the table that pass the filters of the programs_list call,
\* and the places a name takes among them in ascending order of name.
Matching == { i \in 1 .. Len(table) : filters(call.args, table[i], TRUE) }
NamesBelow(nm) ==
    Cardinality({ i \in Matching : NameLt(table[i].program_name, nm) })
NamesUpTo(nm) ==
    Cardinality({ i \in Matching : ~NameLt(nm, table[i].program_name) })
Reported(p) ==
    [program_name |-> p.program_name, country |-> p.institute_country,
     institution |-> p.institution_name,
     tuition |-> IF p.tuition.t = "null" \/ p.tuition.n = 0
                 THEN [t |-> "null"] ELSE p.tuition,
     ctr |-> IF p.ctr.t = "null" \/ p.ctr.n = 0 THEN [t |-> "null"] ELSE p.ctr,
     total_views |-> p.total_views, total_impressions |-> p.total_impressions]

\* C15: programs_list with limit L and offset K returns the records that
\* match the filters at the places K+1 .. K+L of their order by ascending
\* program name, fewer when there are fewer: the output is in ascending
\* order of name, holds max(0, min(L, M - K)) of the M matching records, and
\* its i-th record is a matching record whose name stands at place K+i.
C15_Pagination ==
    Listed /\ call.args.limit.t = "num" /\ call.args.offset.t = "num" =>
        LET out == call.ret.programs
            L == call.args.limit.n
            K == call.args.offset.n
            M == Cardinality(Matching)
        IN  /\ \A i, j \in 1 .. Len(out) :
                  i < j => ~NameLt(out[j].program_name, out[i].program_name)
            /\ Len(out) = IF M - K <= 0 THEN 0 ELSE IF L < M - K THEN L ELSE M - K
            /\ \A i \in 1 .. Len(out) :
                  /\ \E m \in Matching : out[i] = Reported(table[m])
                  /\ NamesBelow(out[i].program_name) <= K + i - 1
                  /\ K + i <= NamesUpTo(out[i].program_name)
            /\ call.ret.count = Len(out)

\* limit 2 and offset 1 over four matching records with three different
\* names: the second and the third by name are returned.
C15_Witness ==
    /\ Listed /\ call.args.limit = JNum(2) /\ call.args.offset = JNum(1)
    /\ Cardinality(Matching) = 4
    /\ Len(call.ret.programs) = 2
    /\ NamesBelow(call.ret.programs[1].program_name) = 1
    /\ NamesBelow(call.ret.programs[2].program_name) = 2

\* What mcp_handler returns as the result of a method called with no params.
ResultOf(method) ==
    mcp_handler([t |-> "obj",
                 f |-> [id |-> [t |-> "num", n |-> 1],
                        method |-> [t |-> "str", s |-> method]]]).resp.result

\* C16 as claimed: the first event of a stream carries the capability
\* announcement with the field names and values of the result of initialize
\* (protocolVersion, capabilities, serverInfo), and the result of the second
\* event is the result of tools/list.
C16_Claimed ==
    \A s \in Streams :
        /\ Len(events[s]) >= 1 => events[s][1].params = ResultOf("initialize")
        /\ Len(events[s]) >= 2 => events[s][2].result = ResultOf("tools/list")

\* The JSON types the schema of the two tools gives its fields, and an
\* arguments value that does not fit: no mapping, or a known field that is
\* neither null nor of its type.
SchemaType(k) ==
    CASE k \in {"limit", "offset", "max_tuition"} -> "num"
      [] k \in {"program_name", "country_name", "institution_name", "ranking_method"} -> "str"
      [] OTHER -> "any"
SchemaFields(name) ==
    IF name.s = "programs_list"
    THEN {"program_name", "country_name", "institution_name", "max_tuition",
          "limit", "offset"}
    ELSE {"country_name", "institution_name", "max_tuition", "ranking_method", "limit"}
Invalid(name, a) ==
    \/ a.t # "obj"
    \/ \E k \in DOMAIN a.f \cap SchemaFields(name) :
          a.f[k].t # "null" /\ a.f[k].t # SchemaType(k)

\* C17: a tools/call for programs_list or rank_programs whose arguments fail
\* the validation against the tool's schema is answered with an error
\* envelope of code -32603 carrying the validation message, and neither the
\* tool nor the storage has been called for it; a tool is called only with
\* arguments that pass.
C17_InvalidArguments ==
    \A r \in Requests :
        /\ /\ Answering(r) /\ IsToolsCall(cur.body)
           /\ NameOf(cur.body) \in Registered
           /\ Invalid(NameOf(cur.body), ArgumentsOf(cur.body))
           => /\ cur.http.status = 200
              /\ ErrorCode(r) = -32603
              /\ ~HasKey(cur.http.body, "result")
              /\ cur.http.body.error.f.message =
                   IF ArgumentsOf(cur.body).t = "obj" THEN "validation error"
                   ELSE "argument after ** must be a mapping"
              /\ cur.tool = "-" /\ cur.args = NoVal /\ cur.result = NoVal
        /\ pc[r] \in HandlerPcs \ {"mcp_handler"} /\ route[r] \in RpcRoutes =>
              ~Invalid(NameOf(cur.body), ArgumentsOf(cur.body))

\* programs_list called with the text "abc" as limit, answered with -32603.
C17_Witness ==
    \E r \in Requests :
        /\ Answering(r) /\ IsToolsCall(cur.body)
        /\ NameOf(cur.body) = JStr("programs_list")
        /\ ArgumentsOf(cur.body) = JObj([limit |-> JStr("abc")])
        /\ ErrorCode(r) = -32603

\* The method of the body being answered (null when it has none), and the
\* value of a key of its params.
MethodOf(b) == IF HasKey(b.f, "method") THEN b.f["method"] ELSE [t |-> "null"]
ParamsIsMapping(b) == HasKey(b.f, "params") => b.f["params"].t = "obj"
ParamOf(b, k) == IF HasKey(ParamsOf(b), k) THEN ParamsOf(b)[k] ELSE [t |-> "null"]
KnownMethods ==
    { [t |-> "str", s |-> m] :
        m \in {"initialize", "tools/list", "tools/call", "prompts/list",
               "prompts/get", "resources/list", "resources/read"} }

\* C18: an unknown method, a prompts/get for a name other than
\* program_summary and a resources/read for a uri other than guide://usage
\* are answered with an error envelope of code -32601; every error envelope
\* of mcp_handler has code -32601 or -32603.
C18_NotFound ==
    \A r \in Requests :
        /\ Answering(r) /\ cur.body.t = "obj" /\ ParamsIsMapping(cur.body) =>
              LET m == MethodOf(cur.body)
                  notFound ==
                      \/ m \notin KnownMethods
                      \/ /\ m = [t |-> "str", s |-> "prompts/get"]
                         /\ ParamOf(cur.body, "name") # [t |-> "str", s |-> "program_summary"]
                      \/ /\ m = [t |-> "str", s |-> "resources/read"]
                         /\ ParamOf(cur.body, "uri") # [t |-> "str", s |-> "guide://usage"]
              IN  notFound => cur.http.status = 200 /\ ErrorCode(r) = -32601
        /\ Enveloped(r) /\ HasKey(cur.http.body, "error") =>
              ErrorCode(r) \in {-32601, -32603}

\* A resources/read for guide://other answered with -32601.
C18_Witness ==
    \E r \in Requests :
        /\ Answering(r) /\ cur.body.t = "obj" /\ ParamsIsMapping(cur.body)
        /\ MethodOf(cur.body) = JStr("resources/read")
        /\ ParamOf(cur.body, "uri") = JStr("guide://other")
        /\ ErrorCode(r) = -32601

\* C19 as claimed: the limit and the offset handed to the data provider are
\* never null: the limit is a positive integer and the offset a non-negative
\* integer, the defaults (20 and 10, 0) when the caller gives none.
C19_Claimed ==
    call.pc \in {"fetched", "returned"} =>
        /\ call.params.limit.t = "num" /\ call.params.limit.n > 0
        /\ ~HasKey(call.tool_args.f, "limit") =>
              call.params.limit.n = IF call.tool = "programs_list" THEN 20 ELSE 10
        /\ call.tool = "programs_list" =>
              /\ call.params.offset.t = "num" /\ call.params.offset.n >= 0
              /\ ~HasKey(call.tool_args.f, "offset") => call.params.offset.n = 0

\* The request being answered is a call of the method m.
Answers(r, m) ==
    Enveloped(r) /\ cur.body.t = "obj" /\ MethodOf(cur.body) = [t |-> "str", s |-> m]
            /\ HasKey(cur.http.body, "result")

\* C20: no step of any request or stream changes the list of tool
\* descriptors, and whatever calls and stream openings came before, in any
\* interleaving, tools/list, prompts/list and resources/list return what they
\* return on the first call.
C20_CatalogsStable ==
    /\ [][TOOLS' = TOOLS]_vars
    /\ [](\A r \in Requests :
            /\ Answers(r, "tools/list") => cur.http.body.result = [tools |-> ToolCatalog]
            /\ Answers(r, "prompts/list") =>
                  /\ Len(cur.http.body.result.prompts) = 1
                  /\ cur.http.body.result.prompts[1].name = "program_summary"
            /\ Answers(r, "resources/list") =>
                  /\ Len(cur.http.body.result.resources) = 1
                  /\ cur.http.body.result.resources[1].uri = "guide://usage")

\* A tools/list answered after a stream has sent its catalog.
C20_Witness ==
    \E r \in Requests :
        /\ Answers(r, "tools/list")
        /\ \E s \in Streams : Len(events[s]) >= 2

\* What the gate decides from one answer of the verifier: the status it
\* raises, or 0 when it lets the request pass.
DecisionFrom(a) ==
    IF a.kind = "raise" THEN 500
    ELSE IF a.status_code # 200 THEN 401
    ELSE IF a.json.t # "obj" THEN 500
    ELSE IF ~Allowed(a.json) THEN 403
    ELSE 0
DecisionIs(v, status) ==
    IF status = 0 THEN v.kind = "return" ELSE v.kind = "raise" /\ v.status = status

\* C21: the gate keeps nothing between requests.  An invocation whose header
\* passes makes its one call of the verifier (started from the header test,
\* never repeated within the request) and decides from the answer to that
\* call alone, whatever was decided for any other request; an invocation
\* whose header fails makes none.  So two requests with the same token cause
\* two calls, and a token the verifier rejects now is rejected although it
\* was accepted before.
C21_Stateless ==
    [][\A r \in Requests :
          /\ pc[r] # "verifier_wait" /\ pc'[r] = "verifier_wait" =>
                pc[r] = "verify" /\ cur'.user_resp = NoVal /\ ~BadHeader(cur'.hdr)
          /\ pc[r] # "verified" /\ pc'[r] = "verified" =>
                IF BadHeader(cur'.hdr)
                THEN pc[r] = "verify" /\ cur'.user_resp = NoVal
                     /\ DecisionIs(cur'.verdict, 401)
                ELSE /\ pc[r] = "verifier_wait" /\ cur'.user_resp # NoVal
                     /\ DecisionIs(cur'.verdict, DecisionFrom(cur'.user_resp))
          /\ pc[r] = "verified" => pc'[r] \notin {"verify", "verifier_wait"}]_vars

\* A request whose token the verifier rejects while another request, accepted
\* with the same token, is still being served.
C21_Witness ==
    \E r, o \in Requests :
        /\ o # r /\ auth[o] /\ pc[o] = "reading_body"
        /\ pc[r] = "verified" /\ cur.hdr = <<"Bearer", "tokA">>
        /\ cur.user_resp.kind = "response" /\ cur.user_resp.status_code = 401
        /\ Decided(401)

\* The rank_programs call has ended, with a ranking or with an error.
RankEnded == call.pc = "returned" /\ call.tool = "rank_programs"
OtherMethod ==
    call.args.ranking_method \notin
        {[t |-> "str", s |-> "engagement"], [t |-> "str", s |-> "cost_effectiveness"]}
\* views + impressions * 0.1 of a reported record, in tenths.
PopularityTenths(p) == p.total_views.n * 10 + p.total_impressions.n
ScoreTenths(p) ==
    IF p.ranking_score.t = "rat"
    THEN [n |-> p.ranking_score.n * 10, d |-> p.ranking_score.d]
    ELSE [n |-> p.ranking_score.n * 10, d |-> 1]

\* C22: for every ranking_method that is neither engagement nor
\* cost_effectiveness (popularity, an unknown text, null) rank_programs, run
\* with a limit the statement accepts, does not fail, reports for every
\* record the score total_views + total_impressions * 0.1 and returns the
\* records in an order of non-increasing popularity, as for popularity.
C22_PopularityFallback ==
    RankEnded /\ OtherMethod
        /\ ~(call.args.limit.t = "num" /\ call.args.limit.n < 0) =>
        /\ HasKey(call.ret, "ranked_programs") /\ ~HasKey(call.ret, "error")
        /\ LET out == call.ret.ranked_programs
           IN  /\ \A i \in 1 .. Len(out) :
                     ScoreTenths(out[i]).n = PopularityTenths(out[i]) * ScoreTenths(out[i]).d
               /\ \A i, j \in 1 .. Len(out) :
                     i < j => PopularityTenths(out[i]) >= PopularityTenths(out[j])

\* A ranking with ranking_method null that returned two records of
\* different popularity.
C22_Witness ==
    /\ Ranked /\ call.args.ranking_method = None
    /\ Len(call.ret.ranked_programs) >= 2
    /\ PopularityTenths(call.ret.ranked_programs[1])
         > PopularityTenths(call.ret.ranked_programs[2])

\* The request on GET /user that is being answered.
UserAnswered(r) == pc[r] = "responding" /\ route[r] = "GET /user"

\* C23 as claimed: GET /user answers 401 to a missing or non-Bearer header,
\* 401 "Failed to get user info" to a token the verifier rejects, and 500
\* only when the outbound call itself fails.
C23_Claimed ==
    \A r \in Requests :
        UserAnswered(r) =>
            IF BadHeader(cur.hdr) THEN cur.http.status = 401
            ELSE IF cur.user_resp.kind = "raise" THEN cur.http.status = 500
            ELSE IF cur.user_resp.status_code # 200
            THEN cur.http.status = 401 /\ cur.http.body = "Failed to get user info"
            ELSE cur.http.status = 500 => cur.user_resp.json.t = "malformed"

\* The event loop takes its ready tasks in turn, so a task that is ready
\* again and again is run; the verifier and the storage answer every call.
FairSpec ==
    /\ Spec
    /\ \A r \in Requests : WF_vars(RequestStep(r))
    /\ \A s \in Streams : SF_vars(close(s))

====
